---- MODULE Spec2Model ----
(***************************************************************************)
(* LinkFX (src/js/LinkFX.js): the rope simulation store, the curve        *)
(* sampler, the animate-link predicate and the render dispatch that the   *)
(* extension splices into the host's link-drawing method.                 *)
(*                                                                         *)
(* Numbers.  JavaScript numbers are binary floating point.  A number is   *)
(* modelled as an integer count of grid units of 1/Scale (the coarsest    *)
(* grid on which every decimal literal of the source is exact), and every *)
(* arithmetic operation rounds its exact result to the nearest            *)
(* representable value (MantBits significant bits, ties to even), the way *)
(* an IEEE operation does.  Time stamps (performance.now()) are whole     *)
(* milliseconds.  JavaScript index i of an array is index i+1 of the      *)
(* sequence that models it.                                                *)
(***************************************************************************)
EXTENDS Integers, Sequences, FiniteSets, TLC

\* ------------------------------------------------------------------ bounds
MantBits == 13
NumEffects == 1
MaxDraws == 1
MaxTicks == 1
MaxTimers == 1

\* 1/200 is the coarsest grid holding 0.985, 0.6, 0.25, 0.7, 0.15, 0.5 and i/8.
Scale == 200

\* ------------------------------------------------------- program constants
ROPE_SEGMENTS == 8
ROPE_ITERATIONS == 4
SWEEP_MIN_SIZE == 60
SWEEP_INTERVAL == 3000
STALE_AFTER == 8000
RESIZE_THRESHOLD == 20
MAX_SAG == 60

\* currentEffect = null, link.id == null, animationLoopId = null.
NoEffect == -1
NoId == -1
NoLoop == 0

\* A value getRopePoints returns: null, or the array of points.
NoPoints == << >>

\* A link argument: null, or an object with id, origin_id and target_id.
NoLink == [present |-> FALSE, id |-> NoId, origin_id |-> NoId, target_id |-> NoId]
Link(id, origin, target) ==
    [present |-> TRUE, id |-> id, origin_id |-> origin, target_id |-> target]

\* ------------------------------------------------------------- arithmetic
Abs(x) == IF x < 0 THEN -x ELSE x

Min(x, y) == IF x < y THEN x ELSE y

\* The spacing of representable values at magnitude m (in grid units).
RECURSIVE Quantum(_)
Quantum(m) == IF m < 2 ^ MantBits THEN 1 ELSE 2 * Quantum(m \div 2)

\* The integer nearest to n/d (d > 0), ties to the even one.
RoundHalfEven(n, d) ==
    LET f == n \div d
        r == n % d
    IN  IF 2 * r < d THEN f
        ELSE IF 2 * r > d THEN f + 1
        ELSE IF f % 2 = 0 THEN f ELSE f + 1

\* The representable value nearest to the exact quotient n/d of grid units.
RoundRat(n, d) ==
    LET q == Quantum(Abs(n) \div d)
    IN  q * RoundHalfEven(n, d * q)

Fl(x) == RoundRat(x, 1)

FAdd(x, y) == Fl(x + y)
FSub(x, y) == Fl(x - y)
FMul(x, y) == RoundRat(x * y, Scale)
FDiv(x, y) == IF y > 0 THEN RoundRat(x * Scale, y) ELSE RoundRat(-(x * Scale), -y)

\* The literal n/d of the source, as the nearest representable value.
Lit(n, d) == RoundRat(n * Scale, d)

\* The whole number n.
Num(n) == n * Scale

RECURSIVE SqrtFrom(_, _)
SqrtFrom(n, r) ==
    LET s == (r + n \div r) \div 2
    IN  IF s >= r THEN r ELSE SqrtFrom(n, s)

\* floor(sqrt(n)) for n >= 0 (Newton's iteration from above).
ISqrt(n) == IF n < 2 THEN n ELSE SqrtFrom(n, n \div 2 + 1)

\* The integer nearest to sqrt(n).
SqrtNearest(n) ==
    LET r == ISqrt(n)
    IN  IF n - r * r > r THEN r + 1 ELSE r

\* Math.hypot(dx, dy).
Hypot(dx, dy) == Fl(SqrtNearest(dx * dx + dy * dy))

\* Math.sqrt(x) of a grid value x >= 0: sqrt(x/Scale) * Scale = sqrt(x * Scale).
FSqrt(x) == Fl(SqrtNearest(x * Scale))

\* Math.round(x): floor(x + 1/2), as a whole number (not in grid units).
MathRound(x) == (2 * x + Scale) \div (2 * Scale)

\* Math.floor(x), as a whole number.
MathFloor(x) == x \div Scale

\* ROPE_GRAVITY = 0.6, ROPE_DAMPING = 0.985, ROPE_STIFFNESS = 0.25,
\* ROPE_MOMENTUM_TRANSFER = 0.7.
ROPE_GRAVITY == Lit(6, 10)
ROPE_DAMPING == Lit(985, 1000)
ROPE_STIFFNESS == Lit(25, 100)
ROPE_MOMENTUM_TRANSFER == Lit(7, 10)

\* --------------------------------------------------------- rope simulation
NumPoints == ROPE_SEGMENTS + 1

\* A faulty variant: the sag grows linearly along the rope.
CreatePointLinearSag(a, b, len, i) ==
    LET t == FDiv(Num(i), Num(NumPoints - 1))
        x == FAdd(a[1], FMul(FSub(b[1], a[1]), t))
        sag == FMul(Min(FMul(len, Lit(15, 100)), Num(MAX_SAG)), t)
        y == FAdd(FAdd(a[2], FMul(FSub(b[2], a[2]), t)), sag)
    IN  [x |-> x, y |-> y, oldX |-> x, oldY |-> y,
         pinned |-> (i = 0 \/ i = NumPoints - 1)]

\* One iteration i of the loop of createRopeState (i is the JavaScript index).
CreatePoint(a, b, len, i) ==
    LET t == FDiv(Num(i), Num(NumPoints - 1))
        x == FAdd(a[1], FMul(FSub(b[1], a[1]), t))
        sagAmount == Min(FMul(len, Lit(15, 100)), Num(MAX_SAG))
        sag == FMul(FMul(FMul(sagAmount, Num(4)), t), FSub(Num(1), t))
        y == FAdd(FAdd(a[2], FMul(FSub(b[2], a[2]), t)), sag)
    IN  [x |-> x, y |-> y, oldX |-> x, oldY |-> y,
         pinned |-> (i = 0 \/ i = NumPoints - 1)]

\* A faulty variant: the rope is created on the straight line, with no sag.
createRopeStateFlat(a, b, len, now) ==
    [points |-> [k \in 1..NumPoints |-> CreatePoint(a, b, 0, k - 1)],
     segmentLen |-> FDiv(len, Num(NumPoints - 1)),
     lastA |-> a,
     lastB |-> b,
     lastSeen |-> now]

createRopeState(a, b, len, now) ==
    [points |-> [k \in 1..NumPoints |-> CreatePoint(a, b, len, k - 1)],
     segmentLen |-> FDiv(len, Num(NumPoints - 1)),
     lastA |-> a,
     lastB |-> b,
     lastSeen |-> now]

\* A faulty variant: the influence decays linearly.
StartInfluenceLinear(i, halfLen) ==
    FMul(FSub(Num(1), FDiv(Num(i), Num(halfLen))), ROPE_MOMENTUM_TRANSFER)

\* The first loop of updateRopePhysics (momentum transfer from a moved start
\* point): JavaScript indices 1 .. halfLen-1.
StartInfluence(i, halfLen) ==
    LET r == FSub(Num(1), FDiv(Num(i), Num(halfLen)))
    IN  FMul(FMul(r, r), ROPE_MOMENTUM_TRANSFER)

MomentumStart(points, dxStart, dyStart) ==
    LET n == Len(points)
        halfLen == n \div 2
    IN  [k \in 1..n |->
            IF k - 1 >= 1 /\ k - 1 < halfLen
            THEN [points[k] EXCEPT
                    !.oldX = FSub(@, FMul(dxStart, StartInfluence(k - 1, halfLen))),
                    !.oldY = FSub(@, FMul(dyStart, StartInfluence(k - 1, halfLen)))]
            ELSE points[k]]

\* The second loop (a moved end point): JavaScript indices n-2 down to n-halfLen.
MomentumEnd(points, dxEnd, dyEnd) ==
    LET n == Len(points)
        halfLen == n \div 2
    IN  [k \in 1..n |->
            IF k - 1 <= n - 2 /\ k - 1 >= n - halfLen
            THEN [points[k] EXCEPT
                    !.oldX = FSub(@, FMul(dxEnd, StartInfluence(n - 1 - (k - 1), halfLen))),
                    !.oldY = FSub(@, FMul(dyEnd, StartInfluence(n - 1 - (k - 1), halfLen)))]
            ELSE points[k]]

\* startMoved > 0.1, compared exactly (h / Scale > 1 / 10).
MovedEnough(dx, dy) == 10 * Hypot(dx, dy) > Scale

MomentumTransfer(state, a, b) ==
    LET dxStart == FSub(a[1], state.lastA[1])
        dyStart == FSub(a[2], state.lastA[2])
        dxEnd == FSub(b[1], state.lastB[1])
        dyEnd == FSub(b[2], state.lastB[2])
        p1 == IF MovedEnough(dxStart, dyStart)
              THEN MomentumStart(state.points, dxStart, dyStart)
              ELSE state.points
    IN  IF MovedEnough(dxEnd, dyEnd) THEN MomentumEnd(p1, dxEnd, dyEnd) ELSE p1

\* points[0] and points[length-1] forced onto a and b.
PinEndpoints(points, a, b) ==
    [points EXCEPT
        ![1] = [@ EXCEPT !.x = a[1], !.y = a[2], !.oldX = a[1], !.oldY = a[2]],
        ![Len(points)] = [@ EXCEPT !.x = b[1], !.y = b[2], !.oldX = b[1], !.oldY = b[2]]]

\* A faulty variant: no gravity is added to the velocity.
VerletPointNoGravity(p) ==
    LET vx == FMul(FSub(p.x, p.oldX), ROPE_DAMPING)
        vy == FMul(FSub(p.y, p.oldY), ROPE_DAMPING)
    IN  [p EXCEPT !.oldX = p.x, !.oldY = p.y,
                  !.x = FAdd(p.x, vx),
                  !.y = FAdd(p.y, vy)]

VerletPoint(p) ==
    LET vx == FMul(FSub(p.x, p.oldX), ROPE_DAMPING)
        vy == FMul(FSub(p.y, p.oldY), ROPE_DAMPING)
    IN  [p EXCEPT !.oldX = p.x, !.oldY = p.y,
                  !.x = FAdd(p.x, vx),
                  !.y = FAdd(p.y, FAdd(vy, ROPE_GRAVITY))]

\* The integration loop: JavaScript indices 1 .. length-2.
Verlet(points) ==
    [k \in 1..Len(points) |->
        IF k > 1 /\ k < Len(points) THEN VerletPoint(points[k]) ELSE points[k]]

\* One pass of the inner constraint loop body for the pair (i, i+1), i the
\* JavaScript index.
RelaxPair(points, i, targetLen) ==
    LET p1 == points[i + 1]
        p2 == points[i + 2]
        dx == FSub(p2.x, p1.x)
        dy == FSub(p2.y, p1.y)
        dist == FSqrt(FAdd(FMul(dx, dx), FMul(dy, dy)))
        diff == FDiv(FSub(targetLen, dist), dist)
        offsetX == FMul(FMul(dx, diff), Lit(1, 2))
        offsetY == FMul(FMul(dy, diff), Lit(1, 2))
        q1 == IF p1.pinned THEN p1
              ELSE [p1 EXCEPT !.x = FSub(@, FMul(offsetX, ROPE_STIFFNESS)),
                              !.y = FSub(@, FMul(offsetY, ROPE_STIFFNESS))]
        q2 == IF p2.pinned THEN p2
              ELSE [p2 EXCEPT !.x = FAdd(@, FMul(offsetX, ROPE_STIFFNESS)),
                              !.y = FAdd(@, FMul(offsetY, ROPE_STIFFNESS))]
    IN  IF 1000 * dist < Scale THEN points
        ELSE [points EXCEPT ![i + 1] = q1, ![i + 2] = q2]

RECURSIVE RelaxFrom(_, _, _)
RelaxFrom(points, i, targetLen) ==
    IF i >= Len(points) - 1 THEN points
    ELSE RelaxFrom(RelaxPair(points, i, targetLen), i + 1, targetLen)

RECURSIVE Relax(_, _, _)
Relax(points, iter, targetLen) ==
    IF iter >= ROPE_ITERATIONS THEN points
    ELSE Relax(RelaxFrom(points, 0, targetLen), iter + 1, targetLen)

\* The points updateRopePhysics leaves in the state and returns.
StepPoints(state, a, b, len) ==
    LET moved == MomentumTransfer(state, a, b)
        pinned == PinEndpoints(moved, a, b)
        integrated == Verlet(pinned)
    IN  Relax(integrated, 0, FDiv(len, Num(Len(state.points) - 1)))

\* A faulty variant: the end points are recorded and no step is made.
updateRopePhysicsSkipsStep(state, a, b, len) ==
    [state EXCEPT !.lastA = a, !.lastB = b]

updateRopePhysics(state, a, b, len) ==
    [state EXCEPT !.points = StepPoints(state, a, b, len),
                  !.lastA = a,
                  !.lastB = b]

\* ------------------------------------------------------------ curve sampler
\* A faulty variant: the curve is the straight line from a to b.
bezierPointStraight(t, a, b, cp) ==
    << FAdd(a[1], FMul(FSub(b[1], a[1]), t)), FAdd(a[2], FMul(FSub(b[2], a[2]), t)) >>

bezierPoint(t, a, b, cp) ==
    LET mt == FSub(Num(1), t)
        mt2 == FMul(mt, mt)
        mt3 == FMul(mt2, mt)
        t2 == FMul(t, t)
        t3 == FMul(t2, t)
        cpA == FAdd(a[1], cp)
        cpB == FSub(b[1], cp)
        Poly(p0, p1, p2, p3) ==
            FAdd(FAdd(FAdd(FMul(mt3, p0),
                           FMul(FMul(FMul(Num(3), mt2), t), p1)),
                      FMul(FMul(FMul(Num(3), mt), t2), p2)),
                 FMul(t3, p3))
    IN  << Poly(a[1], cpA, cpB, b[1]), Poly(a[2], a[2], b[2], b[2]) >>

getSmartPoint(t, a, b, cp, ropePoints) ==
    IF Len(ropePoints) >= 2
    THEN LET n == Len(ropePoints)
             segmentLen == FDiv(Num(1), Num(n - 1))
             segment == MathFloor(FMul(t, Num(n - 1)))
             localT == FDiv(FSub(t, FMul(Num(segment), segmentLen)), segmentLen)
             i == Min(segment, n - 2)
             p1 == ropePoints[i + 1]
             p2 == ropePoints[i + 2]
         IN  << FAdd(p1.x, FMul(FSub(p2.x, p1.x), localT)),
                FAdd(p1.y, FMul(FSub(p2.y, p1.y), localT)) >>
    ELSE bezierPoint(t, a, b, cp)

\* ---------------------------------------------------------------- the store
\* A faulty variant: an id of 0 is taken for a missing id.
getRopeKeyTruthyId(link, a, b) ==
    IF link.present /\ link.id # NoId /\ link.id # 0
    THEN << "link", link.id >>
    ELSE << "pos", MathRound(FDiv(a[1], Num(10))), MathRound(FDiv(a[2], Num(10))),
            MathRound(FDiv(b[1], Num(10))), MathRound(FDiv(b[2], Num(10))) >>

\* The string getRopeKey builds of the parts of a key: "link_" + id, or "pos_"
\* and the four rounded coordinates joined by "_".
KeyString(key) ==
    IF key[1] = "link" THEN "link_" \o ToString(key[2])
    ELSE "pos_" \o ToString(key[2]) \o "_" \o ToString(key[3]) \o "_"
         \o ToString(key[4]) \o "_" \o ToString(key[5])

getRopeKey(link, a, b) ==
    IF link.present /\ link.id # NoId
    THEN << "link", link.id >>
    ELSE << "pos", MathRound(FDiv(a[1], Num(10))), MathRound(FDiv(a[2], Num(10))),
            MathRound(FDiv(b[1], Num(10))), MathRound(FDiv(b[2], Num(10))) >>

\* ropePhysics.set(key, value).
MapSet(store, key, value) ==
    [k \in DOMAIN store \cup {key} |-> IF k = key THEN value ELSE store[k]]

\* The sweep of getRopePoints: every entry last seen more than STALE_AFTER ms
\* before now is deleted.
Sweep(store, now) ==
    [k \in {j \in DOMAIN store : ~(now - store[j].lastSeen > STALE_AFTER)} |-> store[k]]

\* A faulty variant: the entry's lastSeen is left as it was.
TouchKeepsLastSeen(store, key, a, b, len, now) ==
    IF key \in DOMAIN store THEN store
    ELSE MapSet(store, key, createRopeState(a, b, len, now))

\* Lines 184-189 of getRopePoints: the entry of key is created when absent, and
\* its lastSeen is set to now.
Touch(store, key, a, b, len, now) ==
    [(IF key \in DOMAIN store THEN store
      ELSE MapSet(store, key, createRopeState(a, b, len, now)))
     EXCEPT ![key].lastSeen = now]

\* A faulty variant: the sweep stamps the time and deletes nothing.
SweepIfDueKeepsAll(store, cleanup, now) ==
    IF Cardinality(DOMAIN store) > SWEEP_MIN_SIZE /\ now - cleanup > SWEEP_INTERVAL
    THEN [store |-> store, cleanup |-> now]
    ELSE [store |-> store, cleanup |-> cleanup]

\* A faulty variant: a sweep is due 8000 ms after the last one.
SweepIfDueLate(store, cleanup, now) ==
    IF Cardinality(DOMAIN store) > SWEEP_MIN_SIZE /\ now - cleanup > STALE_AFTER
    THEN [store |-> Sweep(store, now), cleanup |-> now]
    ELSE [store |-> store, cleanup |-> cleanup]

\* Lines 191-198: the gated sweep, and the sweep time it leaves.
SweepIfDue(store, cleanup, now) ==
    IF Cardinality(DOMAIN store) > SWEEP_MIN_SIZE /\ now - cleanup > SWEEP_INTERVAL
    THEN [store |-> Sweep(store, now), cleanup |-> now]
    ELSE [store |-> store, cleanup |-> cleanup]

\* Lines 202-203: the entry is replaced by fresh, whose points are returned.
Recreate(swept, key, fresh) ==
    [store |-> MapSet(swept.store, key, fresh), cleanup |-> swept.cleanup,
     ret |-> fresh.points, key |-> key, path |-> "resize"]

\* Line 205: the state object is stepped in place, and its points are returned.
Continue(swept, key, known, stepped) ==
    [store |-> IF key \in DOMAIN swept.store
               THEN [swept.store EXCEPT ![key] = stepped] ELSE swept.store,
     cleanup |-> swept.cleanup,
     ret |-> stepped.points, key |-> key,
     path |-> IF known THEN "step" ELSE "create"]

\* A faulty variant: the rest length is never compared, the state always continued.
AdvanceNeverRecreates(swept, state, key, known, a, b, len, now) ==
    Continue(swept, key, known, updateRopePhysics(state, a, b, len))

\* Lines 200-205: recreation on a changed rest length, one step otherwise.
Advance(swept, state, key, known, a, b, len, now) ==
    IF Abs(FSub(state.segmentLen, FDiv(len, Num(ROPE_SEGMENTS)))) > Num(RESIZE_THRESHOLD)
    THEN Recreate(swept, key, createRopeState(a, b, len, now))
    ELSE Continue(swept, key, known, updateRopePhysics(state, a, b, len))

\* Lines 187-205, with the touched store in hand.
Serve(touched, cleanup, key, known, a, b, len, now) ==
    Advance(SweepIfDue(touched, cleanup, now), touched[key], key, known, a, b, len, now)

\* Lines 184-205, with the key in hand.
ServeKey(store, cleanup, key, a, b, len, now) ==
    Serve(Touch(store, key, a, b, len, now), cleanup, key, key \in DOMAIN store,
          a, b, len, now)

\* A faulty variant: the gravity flag is not consulted.
getRopePointsUnguarded(store, cleanup, enabled, link, a, b, len, now) ==
    ServeKey(store, cleanup, getRopeKey(link, a, b), a, b, len, now)

\* getRopePoints on a store: the store and the sweep time it leaves, the value
\* it returns, and the path it took (null, create, step or resize).
getRopePoints(store, cleanup, enabled, link, a, b, len, now) ==
    IF ~enabled
    THEN [store |-> store, cleanup |-> cleanup, ret |-> NoPoints,
          key |-> << "none" >>, path |-> "null"]
    ELSE ServeKey(store, cleanup, getRopeKey(link, a, b), a, b, len, now)

\* ------------------------------------------------------------------- state
VARIABLES
    phase,              \* "loaded": the module is evaluated; "running": init() ran
    hostKind,           \* the link method of the host's canvas class
    liteGraphGlobal,    \* globalThis.LiteGraph.LGraphCanvas exists
    canvasReady,        \* app.canvas exists
    selectedNodes,      \* the keys of app.canvas.selected_nodes
    clock,              \* performance.now(), in ms
    timers,             \* pending setTimeout callbacks, by callback
    rafPending,         \* pending requestAnimationFrame callbacks
    protoLink,          \* what the class's link method currently is
    currentEffect, animationMode, gravityEnabled, installed,
    originalRenderLink, animationLoopId, staticTime,
    gifEnabled, gifUrl,
    ropePhysics, lastRopeCleanup,
    clearedKeys,        \* keys whose rope state the last gravity-off discarded,
                        \* not requested since
    dirty,              \* what the animation-loop pass of the last step did
    draws,              \* draw requests made so far
    lastDraw,           \* the draw request of the last step and what it did
    probe               \* the last direct evaluation of a pure function

vars == << phase, hostKind, liteGraphGlobal, canvasReady, selectedNodes, clock,
           timers, rafPending, protoLink, currentEffect, animationMode,
           gravityEnabled, installed, originalRenderLink, animationLoopId,
           staticTime, gifEnabled, gifUrl, ropePhysics, lastRopeCleanup, clearedKeys,
           dirty,
           draws, lastDraw, probe >>

hostVars == << hostKind, liteGraphGlobal, canvasReady, selectedNodes, clock >>
hookVars == << installed, originalRenderLink, protoLink, timers >>
configVars == << currentEffect, animationMode, gravityEnabled, gifEnabled, gifUrl >>
loopVars == << animationLoopId, rafPending >>
storeVars == << ropePhysics, lastRopeCleanup, clearedKeys >>

EmptyStore == [k \in {} |-> 0]

\* A draw request: the receiver and the arguments of the host's call, and
\* whether the selected effect's draw routine throws if it is run.  aKind and
\* bKind say what the endpoint arguments are: "array", a plain array of two
\* numbers; "typed", an indexable object holding the two numbers that is not
\* an array (a Float32Array); "null", null or undefined.
Request(ctx, a, b, link, color, options, throws) ==
    [recv |-> "canvas", ctx |-> ctx, a |-> a, b |-> b, link |-> link, color |-> color,
     options |-> options, throws |-> throws, aKind |-> "array", bKind |-> "array"]

\* The request req with endpoints of the kinds ka and kb.
WithEnds(req, ka, kb) == [req EXCEPT !.aKind = ka, !.bKind = kb]

\* Array.isArray(a) && Array.isArray(b).
BothArrays(req) == req.aKind = "array" /\ req.bKind = "array"

\* Reading b[0] or a[0] throws a TypeError: the endpoint is null or undefined.
IndexThrows(req) == req.aKind = "null" \/ req.bKind = "null"

NoRequest == Request(FALSE, << 0, 0 >>, << 0, 0 >>, NoLink, "undefined", "undefined", FALSE)

NoDraw ==
    [req |-> NoRequest, hook |-> "none", rope |-> NoPoints, key |-> << "none" >>,
     cleared |-> FALSE, path |-> "none", trace |-> << >>, result |-> "none",
     afterThrow |-> FALSE]

\* What a direct evaluation of a function is given, and what it returned; and
\* what a second evaluation with the same arguments returned (again, second).
\* For an effect's draw routine, index and now are the effect and the time it is
\* given, and out the drawing commands of the first call.  For the animation
\* loop, now and prev are the timestamps of its last two redraw requests (-1:
\* none).
Probe(fn, t, a, b, cp, rope, link) ==
    [fn |-> fn, t |-> t, a |-> a, b |-> b, cp |-> cp, rope |-> rope, link |-> link,
     index |-> 0, now |-> 0, prev |-> 0,
     done |-> FALSE, point |-> << 0, 0 >>, flag |-> FALSE, out |-> << >>,
     again |-> FALSE, second |-> << >>, state |-> << >>]

NoProbe == Probe("none", 0, << 0, 0 >>, << 0, 0 >>, 0, NoPoints, NoLink)

\* The state the module's top-level declarations leave (lines 7-27), but for
\* the hook fields and the mode.
InitSettings ==
    /\ currentEffect = NoEffect
    /\ gravityEnabled = FALSE
    /\ animationLoopId = NoLoop
    /\ staticTime = 5000
    /\ ropePhysics = EmptyStore
    /\ lastRopeCleanup = 0
    /\ gifEnabled = FALSE
    /\ gifUrl = FALSE

InitProgram ==
    /\ InitSettings
    /\ animationMode = "full"
    /\ installed = FALSE
    /\ originalRenderLink = "null"

InitObservers ==
    /\ clearedKeys = {}
    /\ dirty = "none"
    /\ draws = 0
    /\ lastDraw = NoDraw
    /\ probe = NoProbe

\* ------------------------------------------------------ the animation loop
\* FRAME_TIME = 1000 / TARGET_FPS.
TARGET_FPS == 45

\* The handle requestAnimationFrame returns: one no pending callback has.
FreshFrame(pending) ==
    CHOOSE n \in 1..(Cardinality(pending) + 1) : \A f \in pending : f.id # n

\* A faulty variant: a frame is requested whether or not one is scheduled.
startAnimationLoopUnguarded(loop) ==
    LET n == FreshFrame(loop.pending)
    IN  [id |-> n,
         pending |-> loop.pending \cup {[id |-> n, lastTime |-> 0, redrawAt |-> -1]}]

\* startAnimationLoop / stopAnimationLoop on (animationLoopId, pending frames).
\* A pending frame holds its handle and the closure's lastTime; redrawAt is the
\* timestamp of the last redraw request of this run of the loop (-1: none yet).
startAnimationLoop(loop) ==
    IF loop.id # NoLoop THEN loop
    ELSE LET n == FreshFrame(loop.pending)
         IN  [id |-> n,
              pending |-> loop.pending \cup {[id |-> n, lastTime |-> 0, redrawAt |-> -1]}]

stopAnimationLoop(loop) ==
    IF loop.id # NoLoop
    THEN [id |-> NoLoop, pending |-> {f \in loop.pending : f.id # loop.id}]
    ELSE loop

CurrentLoop == [id |-> animationLoopId, pending |-> rafPending]

SetLoop(loop) ==
    /\ animationLoopId' = loop.id
    /\ rafPending' = loop.pending

\* A faulty variant: every frame callback goes on to the redraw test.
ThrottledNever(currentTime, lastTime) == FALSE

\* currentTime - lastTime < FRAME_TIME, with FRAME_TIME = 1000 / TARGET_FPS.
Throttled(currentTime, lastTime) == (currentTime - lastTime) * TARGET_FPS < 1000

\* The browser runs the frame callback f: the closure loop of startAnimationLoop.
\* A probe of the loop records the timestamp of its last redraw request.
LoopFrame(f) ==
    /\ f \in rafPending
    /\ LET rest == rafPending \ {f}
           n == FreshFrame(rest)
           needsRedraw == (currentEffect # NoEffect /\ animationMode # "static")
                          \/ gravityEnabled \/ gifEnabled
           did == IF Throttled(clock, f.lastTime) THEN "throttled"
                  ELSE IF needsRedraw /\ canvasReady THEN "setDirty"
                  ELSE "idle"
       IN  /\ animationLoopId' = n
           /\ rafPending' = rest \cup
                  {[id |-> n,
                    lastTime |-> IF did = "throttled" THEN f.lastTime ELSE clock,
                    redrawAt |-> IF did = "setDirty" THEN clock ELSE f.redrawAt]}
           /\ dirty' = did
           /\ probe' = IF probe.fn = "loop" /\ did = "setDirty"
                       THEN [probe EXCEPT !.prev = probe.now, !.now = clock]
                       ELSE probe
    /\ lastDraw' = NoDraw
    /\ UNCHANGED << phase, hostVars, hookVars, configVars, staticTime, storeVars,
                    draws >>

\* ------------------------------------------------------- hook installation
ClassAvailable == liteGraphGlobal \/ canvasReady

CurrentHooks ==
    [installed |-> installed, original |-> originalRenderLink,
     proto |-> protoLink, timers |-> timers]

\* A faulty variant: installHooks without its first line.
installHooksRepatches(h) ==
    IF ~ClassAvailable
    THEN [h EXCEPT !.timers.hooks = @ + 1]
    ELSE IF hostKind = "renderLink"
    THEN [h EXCEPT !.original = h.proto, !.proto = "patchedRenderLink", !.installed = TRUE]
    ELSE IF hostKind = "drawLink"
    THEN [h EXCEPT !.original = h.proto, !.proto = "patchedDrawLink", !.installed = TRUE]
    ELSE [h EXCEPT !.installed = TRUE]

installHooks(h) ==
    IF h.installed THEN h
    ELSE IF ~ClassAvailable
    THEN [h EXCEPT !.timers.hooks = @ + 1]
    ELSE IF hostKind = "renderLink"
    THEN [h EXCEPT !.original = h.proto, !.proto = "patchedRenderLink", !.installed = TRUE]
    ELSE IF hostKind = "drawLink"
    THEN [h EXCEPT !.original = h.proto, !.proto = "patchedDrawLink", !.installed = TRUE]
    ELSE [h EXCEPT !.installed = TRUE]

SetHooks(h) ==
    /\ installed' = h.installed
    /\ originalRenderLink' = h.original
    /\ protoLink' = h.proto
    /\ timers' = h.timers

\* A faulty variant: init looks for the canvas once and gives up.
waitForCanvasOnce(h) ==
    IF canvasReady THEN installHooks(h) ELSE h

\* waitForCanvas, the closure of init.
waitForCanvas(h) ==
    IF canvasReady THEN installHooks(h) ELSE [h EXCEPT !.timers.wait = @ + 1]

\* The host calls the extension's init.
ExtensionInit ==
    /\ phase = "loaded"
    /\ phase' = "running"
    /\ SetHooks(waitForCanvas(CurrentHooks))
    /\ lastDraw' = NoDraw
    /\ dirty' = "none"
    /\ UNCHANGED << hostVars, configVars, loopVars, staticTime, storeVars, draws, probe >>

\* setTimeout(waitForCanvas, 200) fires.
WaitTimerFires ==
    /\ timers.wait > 0
    /\ SetHooks(waitForCanvas([CurrentHooks EXCEPT !.timers.wait = @ - 1]))
    /\ lastDraw' = NoDraw
    /\ dirty' = "none"
    /\ UNCHANGED << phase, hostVars, configVars, loopVars, staticTime, storeVars,
                    draws, probe >>

\* setTimeout(installHooks, 500) fires.
HooksTimerFires ==
    /\ timers.hooks > 0
    /\ SetHooks(installHooks([CurrentHooks EXCEPT !.timers.hooks = @ - 1]))
    /\ lastDraw' = NoDraw
    /\ dirty' = "none"
    /\ UNCHANGED << phase, hostVars, configVars, loopVars, staticTime, storeVars,
                    draws, probe >>

\* ---------------------------------------------------------- the host's side
\* String(n) of a node id n >= 0, as the sequence of its decimal digits.
RECURSIVE DecimalKey(_)
DecimalKey(n) == IF n < 10 THEN << n >> ELSE Append(DecimalKey(n \div 10), n % 10)

\* parseInt(key) of a string of decimal digits.
RECURSIVE parseInt(_)
parseInt(key) ==
    IF Len(key) = 0 THEN 0
    ELSE 10 * parseInt(SubSeq(key, 1, Len(key) - 1)) + key[Len(key)]

CanvasAppears ==
    /\ ~canvasReady
    /\ canvasReady' = TRUE
    /\ lastDraw' = NoDraw
    /\ dirty' = "none"
    /\ UNCHANGED << phase, hostKind, liteGraphGlobal, selectedNodes, clock, hookVars,
                    configVars, loopVars, staticTime, storeVars, draws, probe >>

\* The host selects the nodes ids: selected_nodes is keyed by node id, and a
\* key of a JavaScript object is the decimal string of the id.
SelectNodes(ids) ==
    /\ canvasReady
    /\ selectedNodes # {DecimalKey(i) : i \in ids}
    /\ selectedNodes' = {DecimalKey(i) : i \in ids}
    /\ lastDraw' = NoDraw
    /\ dirty' = "none"
    /\ UNCHANGED << phase, hostKind, liteGraphGlobal, canvasReady, clock, hookVars,
                    configVars, loopVars, staticTime, storeVars, draws, probe >>

Tick(d, max) ==
    /\ clock + d <= max
    /\ clock' = clock + d
    /\ lastDraw' = NoDraw
    /\ dirty' = "none"
    /\ UNCHANGED << phase, hostKind, liteGraphGlobal, canvasReady, selectedNodes,
                    hookVars, configVars, loopVars, staticTime, storeVars, draws,
                    probe >>

\* ------------------------------------------------- the configuration panel
\* A faulty variant: turning gravity off leaves the store as it is.
ToggleGravityKeepsStore ==
    /\ phase = "running"
    /\ gravityEnabled' = ~gravityEnabled
    /\ SetLoop(IF gravityEnabled' THEN startAnimationLoop(CurrentLoop)
               ELSE IF currentEffect = NoEffect /\ ~gifEnabled /\ animationMode = "static"
               THEN stopAnimationLoop(CurrentLoop)
               ELSE CurrentLoop)
    /\ clearedKeys' = IF ~gravityEnabled' THEN DOMAIN ropePhysics ELSE clearedKeys
    /\ lastDraw' = NoDraw
    /\ dirty' = "none"
    /\ UNCHANGED << phase, hostVars, hookVars, currentEffect, animationMode, gifEnabled,
                    gifUrl, staticTime, ropePhysics, lastRopeCleanup, draws, probe >>

\* The click handler of the gravity section.
ToggleGravity ==
    /\ phase = "running"
    /\ gravityEnabled' = ~gravityEnabled
    /\ SetLoop(IF gravityEnabled' THEN startAnimationLoop(CurrentLoop)
               ELSE IF currentEffect = NoEffect /\ ~gifEnabled /\ animationMode = "static"
               THEN stopAnimationLoop(CurrentLoop)
               ELSE CurrentLoop)
    /\ ropePhysics' = IF ~gravityEnabled' THEN EmptyStore ELSE ropePhysics
    /\ clearedKeys' = IF ~gravityEnabled' THEN DOMAIN ropePhysics ELSE clearedKeys
    /\ lastDraw' = NoDraw
    /\ dirty' = "none"
    /\ UNCHANGED << phase, hostVars, hookVars, currentEffect, animationMode, gifEnabled,
                    gifUrl, staticTime, lastRopeCleanup, draws, probe >>

\* The click handler of a mode button.
SetMode(m) ==
    /\ phase = "running"
    /\ animationMode' = m
    /\ SetLoop(IF m = "static" /\ ~gifEnabled THEN stopAnimationLoop(CurrentLoop)
               ELSE IF currentEffect # NoEffect \/ gifEnabled
               THEN startAnimationLoop(CurrentLoop)
               ELSE CurrentLoop)
    /\ lastDraw' = NoDraw
    /\ dirty' = "none"
    /\ UNCHANGED << phase, hostVars, hookVars, currentEffect, gravityEnabled, gifEnabled,
                    gifUrl, staticTime, storeVars, draws, probe >>

\* selectEffect(index), from an effect button or the disable item.
selectEffect(index) ==
    /\ phase = "running"
    /\ currentEffect' = index
    /\ SetHooks(IF ~installed /\ index # NoEffect THEN installHooks(CurrentHooks)
                ELSE CurrentHooks)
    /\ LET needsAnimation == (index # NoEffect /\ animationMode # "static")
                             \/ gravityEnabled \/ gifEnabled
       IN  SetLoop(IF needsAnimation THEN startAnimationLoop(CurrentLoop)
                   ELSE stopAnimationLoop(CurrentLoop))
    /\ lastDraw' = NoDraw
    /\ dirty' = "none"
    /\ UNCHANGED << phase, hostVars, animationMode, gravityEnabled, gifEnabled, gifUrl,
                    staticTime, storeVars, draws, probe >>

\* The click handler of the GIF toggle.
ToggleGif ==
    /\ phase = "running"
    /\ gifEnabled' = ~gifEnabled
    /\ SetLoop(IF gifEnabled'
               THEN (IF gifUrl THEN startAnimationLoop(CurrentLoop) ELSE CurrentLoop)
               ELSE IF currentEffect = NoEffect /\ ~gravityEnabled
               THEN stopAnimationLoop(CurrentLoop)
               ELSE CurrentLoop)
    /\ lastDraw' = NoDraw
    /\ dirty' = "none"
    /\ UNCHANGED << phase, hostVars, hookVars, currentEffect, animationMode,
                    gravityEnabled, gifUrl, staticTime, storeVars, draws, probe >>

\* A GIF is applied (file picker or URL field; the controls exist while the
\* overlay is enabled).
ApplyGif ==
    /\ phase = "running"
    /\ gifEnabled
    /\ gifUrl' = TRUE
    /\ SetLoop(startAnimationLoop(CurrentLoop))
    /\ lastDraw' = NoDraw
    /\ dirty' = "none"
    /\ UNCHANGED << phase, hostVars, hookVars, currentEffect, animationMode,
                    gravityEnabled, gifEnabled, staticTime, storeVars, draws,
                    probe >>

\* The click handler of the clear button.
ClearGif ==
    /\ phase = "running"
    /\ gifEnabled
    /\ gifUrl
    /\ gifUrl' = FALSE
    /\ lastDraw' = NoDraw
    /\ dirty' = "none"
    /\ UNCHANGED << phase, hostVars, hookVars, currentEffect, animationMode,
                    gravityEnabled, gifEnabled, loopVars, staticTime, storeVars, draws,
                    probe >>

\* ------------------------------------------------------------------ effects
\* The length of the EFFECTS table.
NUM_EFFECTS == 10

\* The values Math.random() may return, of which two are followed.
MathRandom == {0, Lit(1, 2)}

\* drawFireWire, lines 406-411: the radius of the arc of a spark.
drawFireWire(rnd) == << << "arc", FAdd(Num(1), rnd) >> >>

\* drawElectric, lines 490-497: the offset of an inner point of the first path.
drawElectric(rnd) == << << "lineTo", FMul(FSub(rnd, Lit(1, 2)), Num(3)) >> >>

\* EFFECTS[index].draw(ctx, a, b, now, len, ropePoints): the drawing commands
\* it issues are fixed by the effect and its arguments, but for the commands of
\* Fire Wire (index 3) and Electric (index 5) that take a size or an offset from
\* Math.random(), rnd being the value it returns.
EffectDraw(index, a, b, now, len, ropePoints, rnd) ==
    [effect |-> index, a |-> a, b |-> b, now |-> now, len |-> len,
     ropePoints |-> ropePoints,
     random |-> IF index = 3 THEN drawFireWire(rnd)
                ELSE IF index = 5 THEN drawElectric(rnd)
                ELSE << >>]

\* ---------------------------------------------------------------- dispatch
getSelectedNodeIds == IF canvasReady THEN {parseInt(k) : k \in selectedNodes} ELSE {}

\* A faulty variant: in mode selected the target node is not looked at.
shouldAnimateLinkOriginOnly(link) ==
    IF animationMode = "full" THEN TRUE
    ELSE IF animationMode = "static" THEN TRUE
    ELSE IF animationMode = "selected"
    THEN IF ~link.present THEN TRUE
         ELSE link.origin_id \in getSelectedNodeIds
    ELSE FALSE

shouldAnimateLink(link) ==
    IF animationMode = "full" THEN TRUE
    ELSE IF animationMode = "static" THEN TRUE
    ELSE IF animationMode = "selected"
    THEN IF ~link.present THEN TRUE
         ELSE IF getSelectedNodeIds = {} THEN FALSE
         ELSE link.origin_id \in getSelectedNodeIds \/ link.target_id \in getSelectedNodeIds
    ELSE FALSE

\* A faulty variant: the clock is read in every mode.
getTimeForEffectClock == clock

getTimeForEffect == IF animationMode = "static" THEN staticTime ELSE clock

\* A faulty variant: the options are never handed on.
ForwardedOptionsDropped(req, variant) == "empty"

\* The arguments the wrapper hands to the original routine.
ForwardedOptions(req, variant) ==
    IF variant = "renderLink" /\ req.options = "undefined" THEN "empty" ELSE req.options

\* A faulty variant: the effect is run for every connector, whatever the mode
\* and the selection.
EffectAdmittedAnyLink(req) ==
    currentEffect # NoEffect /\ req.ctx /\ BothArrays(req)

\* Lines 1759-1760: the selected effect's draw routine is run for this request.
EffectAdmitted(req) ==
    /\ currentEffect # NoEffect /\ req.ctx /\ BothArrays(req)
    /\ shouldAnimateLink(req.link)

\* A faulty variant: no try block around the effect's draw routine.
EffectEscapesUncaught(req) == req.throws

\* Lines 1761-1764: the call of the draw routine sits in a try block whose
\* catch clause logs a warning, so what the routine throws does not leave it.
EffectEscapes(req) == FALSE

\* A faulty variant: the rope is drawn for the connectors an effect is run for.
RopeDrawnIfAdmitted(req, rope) ==
    gravityEnabled /\ rope # NoPoints /\ req.ctx /\ shouldAnimateLink(req.link)

\* Line 1768: the rope pass is run for this request.
RopeDrawn(req, rope) == gravityEnabled /\ rope # NoPoints /\ req.ctx

\* Lines 1749-1776 (1787-1816): what the wrapper does once len and the rope
\* points rc.ret are computed.  trace lists, in order, the calls it makes that
\* draw, warn or forward.
Render(req, variant, len, rc) ==
    LET gifEv == IF gifEnabled /\ gifUrl /\ shouldAnimateLink(req.link)
                 THEN << << "gif", getTimeForEffect >> >> ELSE << >>
        effectEv == IF EffectAdmitted(req)
                    THEN << << "effect", currentEffect, getTimeForEffect, len, rc.ret,
                               req.throws >> >>
                         \o (IF req.throws /\ ~EffectEscapes(req)
                             THEN << << "warn", "effect draw failed" >> >> ELSE << >>)
                    ELSE << >>
        escaped == EffectAdmitted(req) /\ EffectEscapes(req)
        ropeDrawn == ~escaped /\ RopeDrawn(req, rc.ret)
        ropeEv == IF ropeDrawn
                  THEN << << "rope", rc.ret,
                             IF variant = "renderLink" /\ req.color # "undefined"
                             THEN req.color ELSE "rgba(150, 150, 150, 0.8)" >> >>
                  ELSE << >>
        forward == ~escaped /\ ~(ropeDrawn /\ currentEffect = NoEffect)
                   /\ currentEffect = NoEffect /\ ~gravityEnabled
        origEv == IF forward
                  THEN << << "original", originalRenderLink, req.recv, req.ctx, req.a,
                             req.b, req.link, req.color, ForwardedOptions(req, variant) >> >>
                  ELSE << >>
    IN  [store |-> rc.store, cleanup |-> rc.cleanup, rope |-> rc.ret, key |-> rc.key,
         path |-> rc.path, trace |-> gifEv \o effectEv \o ropeEv \o origEv,
         result |-> IF escaped THEN "Error" ELSE IF forward THEN "original"
                    ELSE "undefined"]

\* Line 1746 (1784) throws a TypeError: nothing was done yet.
IndexError ==
    [store |-> ropePhysics, cleanup |-> lastRopeCleanup, rope |-> NoPoints,
     key |-> << "none" >>, path |-> "none", trace |-> << >>, result |-> "TypeError"]

\* Line 1747 (1785): ropePoints = getRopePoints(link, a, b, len).
RenderLen(req, variant, len) ==
    Render(req, variant, len,
           getRopePoints(ropePhysics, lastRopeCleanup, gravityEnabled,
                         req.link, req.a, req.b, len, clock))

\* The body shared by patchedRenderLink and patchedDrawLink (they differ in the
\* rope colour and in how the arguments are forwarded).
Dispatch(req, variant) ==
    IF IndexThrows(req) THEN IndexError
    ELSE RenderLen(req, variant,
                   Hypot(FSub(req.b[1], req.a[1]), FSub(req.b[2], req.a[2])))

patchedRenderLink(req) == Dispatch(req, "renderLink")

patchedDrawLink(req) == Dispatch(req, "drawLink")

\* The host's own routine, reached directly while no wrapper is installed.
hostLink(req) ==
    [store |-> ropePhysics, cleanup |-> lastRopeCleanup, rope |-> NoPoints,
     key |-> << "none" >>, path |-> "none",
     trace |-> << << "original", "host", req.recv, req.ctx, req.a, req.b, req.link,
                     req.color, req.options >> >>,
     result |-> "original"]

\* The draw routine of the selected effect was run and threw.
EffectThrew(trace) == \E i \in 1..Len(trace) : trace[i][1] = "effect" /\ trace[i][6]

\* The state a draw request leaves, out being what the link method did.
\* afterThrow: the effect threw in a draw request just before this one.
Drawn(req, out) ==
    /\ ropePhysics' = out.store
    /\ lastRopeCleanup' = out.cleanup
    /\ clearedKeys' = clearedKeys \ {out.key}
    /\ lastDraw' = [req |-> req, hook |-> protoLink, rope |-> out.rope,
                    key |-> out.key, cleared |-> out.key \in clearedKeys,
                    path |-> out.path, trace |-> out.trace, result |-> out.result,
                    afterThrow |-> lastDraw.afterThrow \/ EffectThrew(lastDraw.trace)]

\* The host draws one connector: it calls its canvas's link method.
Draw(req, max) ==
    /\ canvasReady
    /\ draws < max
    /\ Drawn(req, IF protoLink = "patchedRenderLink" THEN patchedRenderLink(req)
                  ELSE IF protoLink = "patchedDrawLink" THEN patchedDrawLink(req)
                  ELSE hostLink(req))
    /\ draws' = draws + 1
    /\ dirty' = "none"
    /\ UNCHANGED << phase, hostVars, hookVars, configVars, loopVars, staticTime, probe >>

\* --------------------------------------------------------- the whole system
HostKinds == {"renderLink", "drawLink", "none"}
Modes == {"static", "full", "selected"}
Effects == 0..(NumEffects - 1)

\* The state after the module is evaluated, in a host that has no canvas yet.
Init ==
    /\ phase = "loaded"
    /\ hostKind \in HostKinds
    /\ liteGraphGlobal \in BOOLEAN
    /\ canvasReady = FALSE
    /\ selectedNodes = {}
    /\ clock = 0
    /\ timers = [wait |-> 0, hooks |-> 0]
    /\ rafPending = {}
    /\ protoLink = "host"
    /\ InitProgram
    /\ InitObservers

\* One animation frame, in ms.
FrameMs == 30

P0 == << 0, 0 >>
P100 == << Num(100), 0 >>

MainRequests ==
    {Request(TRUE, P0, P100, Link(1, 5, 9), "undefined", "undefined", FALSE),
     Request(FALSE, P0, P100, NoLink, "red", "opts", TRUE)}

Next ==
    \/ ExtensionInit
    \/ WaitTimerFires
    \/ HooksTimerFires
    \/ CanvasAppears
    \/ \E ids \in SUBSET {5} : SelectNodes(ids)
    \/ Tick(FrameMs, MaxTicks * FrameMs)
    \/ \E f \in rafPending : LoopFrame(f)
    \/ ToggleGravity
    \/ \E m \in Modes : SetMode(m)
    \/ \E i \in Effects \cup {NoEffect} : timers.hooks < MaxTimers /\ selectEffect(i)
    \/ ToggleGif
    \/ ApplyGif
    \/ ClearGif
    \/ \E req \in MainRequests : Draw(req, MaxDraws)

Spec == Init /\ [][Next]_vars

\* ------------------------------------------- the extension, already hooked
\* The state start-up leaves in a host of the given kind: init ran, the canvas
\* appeared, and waitForCanvas installed the wrapper (ExtensionInit,
\* CanvasAppears, WaitTimerFires).
Hooked(kind) ==
    /\ phase = "running"
    /\ hostKind = kind
    /\ liteGraphGlobal = TRUE
    /\ canvasReady = TRUE
    /\ timers = [wait |-> 0, hooks |-> 0]
    /\ installed = TRUE
    /\ originalRenderLink = "host"
    /\ protoLink = IF kind = "renderLink" THEN "patchedRenderLink" ELSE "patchedDrawLink"
    /\ clock = 0

\* ------------------------------------------------ the rope store under draws
MaxRopeDraws == 3

RopeA == << Lit(1, 10), 0 >>
RopeA2 == << 0, Num(2) >>
RopeNear == << Lit(51, 10), 0 >>
RopeMid == << Lit(251, 10), Num(4) >>
RopeFar == << Lit(1702, 10), 0 >>

RopeRequest(link, a, b) == Request(TRUE, a, b, link, "undefined", "opts", FALSE)

\* One connector drawn short, stretched, stretched past the resize threshold, and
\* with its start moved; and a connector with no link object.
RopeRequests ==
    {RopeRequest(Link(1, 5, 9), RopeA, RopeNear),
     RopeRequest(Link(1, 5, 9), RopeA, RopeMid),
     RopeRequest(Link(1, 5, 9), RopeA, RopeFar),
     RopeRequest(Link(1, 5, 9), RopeA2, RopeNear),
     RopeRequest(NoLink, RopeA, RopeNear)}

InitRope ==
    /\ hostKind \in {"renderLink", "drawLink"}
    /\ Hooked(hostKind)
    /\ selectedNodes = {}
    /\ rafPending = {}
    /\ InitSettings
    /\ animationMode = "full"
    /\ InitObservers

NextRope ==
    \/ ToggleGravity
    \/ \E req \in RopeRequests : Draw(req, MaxRopeDraws)

SpecRope == InitRope /\ [][NextRope]_vars

\* ---------------------------------------------------- claims on the rope store
\* A step that is a draw request through an installed wrapper.
HookedDraw == draws' = draws + 1 /\ lastDraw'.hook # "host"

\* Math.hypot of the endpoints of a request.
RequestLen(req) == Hypot(FSub(req.b[1], req.a[1]), FSub(req.b[2], req.a[2]))

\* The creation position of point i of N + 1 = 9: the straight line from a to b
\* lowered by the sag min(0.15 len, 60) 4t(1-t), previous position = position.
SagPoint(a, b, len, i) ==
    LET t == FDiv(Num(i), Num(8))
        x == FAdd(a[1], FMul(FSub(b[1], a[1]), t))
        sag == FMul(FMul(FMul(Min(FMul(len, Lit(15, 100)), Num(60)), Num(4)), t),
                    FSub(Num(1), t))
        y == FAdd(FAdd(a[2], FMul(FSub(b[2], a[2]), t)), sag)
    IN  [x |-> x, y |-> y, oldX |-> x, oldY |-> y, pinned |-> i \in {0, 8}]

SagRope(a, b, len) == [k \in 1..9 |-> SagPoint(a, b, len, k - 1)]

\* A rope state made from scratch for a request.
FreshState(req) ==
    [points |-> SagRope(req.a, req.b, RequestLen(req)),
     segmentLen |-> FDiv(RequestLen(req), Num(8)),
     lastA |-> req.a, lastB |-> req.b, lastSeen |-> 0]

\* The terminal points of pts lie on a and b, and so do their previous positions.
Pinned(pts, a, b) ==
    /\ pts[1].x = a[1] /\ pts[1].y = a[2]
    /\ pts[1].oldX = a[1] /\ pts[1].oldY = a[2]
    /\ pts[Len(pts)].x = b[1] /\ pts[Len(pts)].y = b[2]
    /\ pts[Len(pts)].oldX = b[1] /\ pts[Len(pts)].oldY = b[2]

\* C1: the points any request returns while gravity is enabled (creation, step
\* or resize recreation) have their terminal points, and the previous positions
\* of these, exactly on the a and b of that request.
C1_EndpointsPinned ==
    lastDraw.rope # NoPoints => Pinned(lastDraw.rope, lastDraw.req.a, lastDraw.req.b)

\* C2: a request made while gravity is disabled returns null and leaves the
\* store, its entries and the last-sweep time as they were.
C2_DisabledRequestIsNull ==
    [][(HookedDraw /\ ~gravityEnabled)
       => /\ lastDraw'.rope = NoPoints
          /\ ropePhysics' = ropePhysics
          /\ lastRopeCleanup' = lastRopeCleanup]_vars

\* A request returned null with gravity off, for a connector that had a rope
\* before gravity was turned off.
C2_Witness ==
    /\ ~gravityEnabled
    /\ lastDraw.hook # "host"
    /\ lastDraw.path = "null"
    /\ << "link", 1 >> \in clearedKeys
    /\ lastDraw.req.link = Link(1, 5, 9)

\* C4: the first request for a key after gravity is turned off and on again
\* works on a state made from scratch from that request's a, b and length: what
\* it returns and stores is one step from the straight line plus sag at rest.
C4_FreshAfterReenable ==
    lastDraw.cleared
    => /\ lastDraw.path = "create"
       /\ lastDraw.rope = StepPoints(FreshState(lastDraw.req), lastDraw.req.a,
                                     lastDraw.req.b, RequestLen(lastDraw.req))
       /\ ropePhysics[lastDraw.key].points = lastDraw.rope

\* The connector drawn to RopeMid, gravity turned off and on, and the same
\* connector then drawn to RopeNear.
C4_Witness ==
    /\ lastDraw.cleared
    /\ draws = 2
    /\ lastDraw.key = << "link", 1 >>
    /\ lastDraw.req.b = RopeNear

\* The rest length of a key's stored state is more than 20 from len/8.
RestLengthChanged(state, len) ==
    Abs(FSub(state.segmentLen, FDiv(len, Num(8)))) > Num(20)

\* C5: a request for a stored key whose rest length is more than 20 from the
\* new len/8 replaces the entry and returns the rope at its creation positions,
\* at rest; otherwise it continues the stored state by a step.
C5_ResizeRecreates ==
    [][(HookedDraw /\ gravityEnabled /\ lastDraw'.key \in DOMAIN ropePhysics)
       => LET req == lastDraw'.req
              key == lastDraw'.key
          IN  IF RestLengthChanged(ropePhysics[key], RequestLen(req))
              THEN /\ lastDraw'.rope = SagRope(req.a, req.b, RequestLen(req))
                   /\ ropePhysics'[key].points = lastDraw'.rope
                   /\ ropePhysics'[key].segmentLen = FDiv(RequestLen(req), Num(8))
                   /\ ropePhysics'[key].lastA = req.a
                   /\ ropePhysics'[key].lastB = req.b
              ELSE /\ lastDraw'.rope
                        = StepPoints(ropePhysics[key], req.a, req.b, RequestLen(req))
                   /\ ropePhysics'[key].points = lastDraw'.rope
                   /\ ropePhysics'[key].segmentLen = ropePhysics[key].segmentLen]_vars

\* A stored connector was stretched from RopeNear to RopeFar in one request.
C5_Witness ==
    /\ lastDraw.path = "resize"
    /\ lastDraw.req.b = RopeFar
    /\ lastDraw.rope = SagRope(RopeA, RopeFar, RequestLen(lastDraw.req))

\* The state a request works on: the stored one, or one made for the request
\* when the key is new or the rest length changed.
WorkingState(store, key, req) ==
    IF key \in DOMAIN store /\ ~RestLengthChanged(store[key], RequestLen(req))
    THEN store[key]
    ELSE createRopeState(req.a, req.b, RequestLen(req), clock)

PointAt(p, pinned) == [x |-> p[1], y |-> p[2], oldX |-> p[1], oldY |-> p[2], pinned |-> pinned]

\* Rope point arrays from a to b: none, a single point, the two end points, the
\* end points about a middle point, and a created rope with its ends on a and b.
SampleRopes(a, b) ==
    {NoPoints,
     << PointAt(a, TRUE) >>,
     << PointAt(a, TRUE), PointAt(b, TRUE) >>,
     << PointAt(a, TRUE), PointAt(<< Num(30), Num(40) >>, FALSE), PointAt(b, TRUE) >>,
     PinEndpoints(createRopeState(a, b, Hypot(FSub(b[1], a[1]), FSub(b[2], a[2])), 0).points,
                  a, b)}

SampleEnds == {<< P0, P100 >>, << RopeA2, RopeMid >>, << RopeFar, << Num(-7), Lit(33, 10) >> >>}

SampleInputs ==
    {Probe("getSmartPoint", t, e[1], e[2], cp, rope, NoLink) :
        t \in {0, Lit(1, 4), Lit(1, 2), Num(1)},
        e \in SampleEnds,
        cp \in {0, Num(25)},
        rope \in UNION {SampleRopes(f[1], f[2]) : f \in SampleEnds}}

AnimateLinks == {NoLink, Link(1, 5, 9), Link(2, 3, 9), Link(3, 9, 12), Link(4, 12, 3)}

AnimateInputs ==
    {Probe("shouldAnimateLink", 0, P0, P0, 0, NoPoints, link) : link \in AnimateLinks}

\* Every effect of the table, at two times, without a rope and on a rope.
EffectInputs ==
    {[Probe("effect", 0, P0, P100, 0, rope, NoLink) EXCEPT !.index = i, !.now = now] :
        i \in 0..(NUM_EFFECTS - 1), now \in {0, 5000},
        rope \in {NoPoints, << PointAt(P0, TRUE), PointAt(P100, TRUE) >>}}

\* Horizontal connectors: from (0,0) to (100,0) and back, short, long, and off
\* the grid of whole numbers.
StepEnds ==
    {<< P0, P100 >>, << P100, P0 >>, << RopeA, RopeNear >>, << RopeA, RopeFar >>,
     << P0, << Num(20), 0 >> >>}

StepInputs ==
    {Probe("updateRopePhysics", 0, e[1], e[2], 0, NoPoints, NoLink) : e \in StepEnds}

\* Connectors to create a rope for, with their lengths (given in the place of
\* cp): the horizontal ones, a sloped one, one of no length, and one long
\* enough for the sag to be capped.
CreateInputs ==
    {Probe("createRopeState", 0, e[1], e[2],
           Hypot(FSub(e[2][1], e[1][1]), FSub(e[2][2], e[1][2])), NoPoints, NoLink) :
        e \in StepEnds \cup {<< RopeA2, RopeMid >>, << RopeNear, RopeNear >>}}
    \cup {Probe("createRopeState", 0, P0, << Num(500), 0 >>, Num(500), NoPoints, NoLink)}

\* The state of the connector from (0,0) to (100,0) after its first request, and
\* after a second one with the same endpoints.
SteppedOnce ==
    updateRopePhysics(createRopeState(P0, P100, Num(100), 0), P0, P100, Num(100))

SteppedTwice == updateRopePhysics(SteppedOnce, P0, P100, Num(100))

\* The next request for that connector: each endpoint where it was, moved by
\* exactly 0.1, or moved by more.
MomentumStarts == {P0, << Lit(1, 10), 0 >>, << Num(3), Num(4) >>}
MomentumEnds == {P100, << Num(100), Lit(1, 10) >>, << Num(94), Num(8) >>}

MomentumInputs ==
    {[Probe("updateRopePhysics.momentum", 0, a, b, 0, NoPoints, NoLink)
        EXCEPT !.out = prior] :
        a \in MomentumStarts, b \in MomentumEnds, prior \in {SteppedOnce, SteppedTwice}}

InitPure ==
    /\ Hooked("renderLink")
    /\ rafPending = {}
    /\ InitSettings
    /\ animationMode \in Modes
    /\ selectedNodes \in {{DecimalKey(i) : i \in ids} : ids \in SUBSET {5, 12}}
    /\ clearedKeys = {}
    /\ dirty = "none"
    /\ draws = 0
    /\ lastDraw = NoDraw
    /\ probe \in SampleInputs \cup AnimateInputs \cup EffectInputs \cup StepInputs
                  \cup CreateInputs \cup MomentumInputs

\* getSmartPoint(t, a, b, cp, ropePoints) is evaluated.
SamplePoint ==
    /\ probe.fn = "getSmartPoint"
    /\ ~probe.done
    /\ probe' = [probe EXCEPT !.done = TRUE,
                              !.point = getSmartPoint(probe.t, probe.a, probe.b, probe.cp,
                                                      probe.rope)]
    /\ UNCHANGED << phase, hostVars, hookVars, configVars, loopVars, staticTime, storeVars,
                    dirty, draws, lastDraw >>

\* shouldAnimateLink(link) is evaluated.
AnimateLink ==
    /\ probe.fn = "shouldAnimateLink"
    /\ ~probe.done
    /\ probe' = [probe EXCEPT !.done = TRUE, !.flag = shouldAnimateLink(probe.link)]
    /\ UNCHANGED << phase, hostVars, hookVars, configVars, loopVars, staticTime, storeVars,
                    dirty, draws, lastDraw >>

\* getSmartPoint is evaluated a second time with the same arguments.
SampleAgain ==
    /\ probe.fn = "getSmartPoint"
    /\ probe.done /\ ~probe.again
    /\ probe' = [probe EXCEPT !.again = TRUE,
                              !.second = getSmartPoint(probe.t, probe.a, probe.b, probe.cp,
                                                       probe.rope)]
    /\ UNCHANGED << phase, hostVars, hookVars, configVars, loopVars, staticTime, storeVars,
                    dirty, draws, lastDraw >>

\* The draw routine of an effect is called: the first, then the second time with
\* the same arguments.
RunEffect ==
    /\ probe.fn = "effect"
    /\ ~probe.again
    /\ \E rnd \in MathRandom :
          LET out == EffectDraw(probe.index, probe.a, probe.b, probe.now,
                                Hypot(FSub(probe.b[1], probe.a[1]),
                                      FSub(probe.b[2], probe.a[2])),
                                probe.rope, rnd)
          IN  probe' = IF ~probe.done THEN [probe EXCEPT !.done = TRUE, !.out = out]
                       ELSE [probe EXCEPT !.again = TRUE, !.second = out]
    /\ UNCHANGED << phase, hostVars, hookVars, configVars, loopVars, staticTime, storeVars,
                    dirty, draws, lastDraw >>

\* A rope is created for a and b and updateRopePhysics is applied to it once,
\* with the same a and b: out is the rope as created, second the rope stepped.
StepRope ==
    /\ probe.fn = "updateRopePhysics"
    /\ ~probe.done
    /\ LET len == Hypot(FSub(probe.b[1], probe.a[1]), FSub(probe.b[2], probe.a[2]))
           fresh == createRopeState(probe.a, probe.b, len, clock)
       IN  probe' = [probe EXCEPT
                        !.done = TRUE,
                        !.out = fresh.points,
                        !.second = updateRopePhysics(fresh, probe.a, probe.b, len).points]
    /\ UNCHANGED << phase, hostVars, hookVars, configVars, loopVars, staticTime, storeVars,
                    dirty, draws, lastDraw >>

\* createRopeState(a, b, len) is evaluated: out is the state it returns.
CreateRope ==
    /\ probe.fn = "createRopeState"
    /\ ~probe.done
    /\ probe' = [probe EXCEPT !.done = TRUE,
                              !.out = createRopeState(probe.a, probe.b, probe.cp, clock)]
    /\ UNCHANGED << phase, hostVars, hookVars, configVars, loopVars, staticTime, storeVars,
                    dirty, draws, lastDraw >>

\* updateRopePhysics(state, a, b, len) is applied to the stored state out:
\* second is the points after its momentum transfer (lines 116-132), state the
\* state when it returns.
TransferMomentum ==
    /\ probe.fn = "updateRopePhysics.momentum"
    /\ ~probe.done
    /\ LET len == Hypot(FSub(probe.b[1], probe.a[1]), FSub(probe.b[2], probe.a[2]))
       IN  probe' = [probe EXCEPT
                        !.done = TRUE,
                        !.second = MomentumTransfer(probe.out, probe.a, probe.b),
                        !.state = updateRopePhysics(probe.out, probe.a, probe.b, len)]
    /\ UNCHANGED << phase, hostVars, hookVars, configVars, loopVars, staticTime, storeVars,
                    dirty, draws, lastDraw >>

NextPure ==
    \/ SamplePoint \/ SampleAgain \/ AnimateLink \/ RunEffect \/ StepRope \/ CreateRope
    \/ TransferMomentum

SpecPure == InitPure /\ [][NextPure]_vars

\* The rope point array of a sample is one the boundary rule speaks of: absent
\* or too short (Bezier mode), or running from a to b.
FromAToB(pr) ==
    \/ Len(pr.rope) < 2
    \/ /\ pr.rope[1].x = pr.a[1] /\ pr.rope[1].y = pr.a[2]
       /\ pr.rope[Len(pr.rope)].x = pr.b[1] /\ pr.rope[Len(pr.rope)].y = pr.b[2]

\* C8: getSmartPoint returns exactly a at t = 0 and exactly b at t = 1, in
\* Bezier mode and, for rope points running from a to b, in rope mode.
C8_SampleBoundary ==
    (probe.fn = "getSmartPoint" /\ probe.done /\ FromAToB(probe))
    => /\ probe.t = 0 => probe.point = probe.a
       /\ probe.t = Num(1) => probe.point = probe.b

\* The node ids the host has selected.
SelectedIds == {i \in 0..20 : DecimalKey(i) \in selectedNodes}

\* C9: shouldAnimateLink is true in modes full and static; in mode selected it
\* is true exactly when there is no link object or one of origin_id, target_id
\* is a selected node.
C9_AnimateRule ==
    (probe.fn = "shouldAnimateLink" /\ probe.done)
    => (probe.flag
        <=> \/ animationMode \in {"full", "static"}
            \/ /\ animationMode = "selected"
               /\ \/ ~probe.link.present
                  \/ probe.link.origin_id \in SelectedIds
                  \/ probe.link.target_id \in SelectedIds)

\* Mode selected, nodes 5 and 12 selected: the link from 9 to 12 animates on
\* account of its target alone.
C9_Witness ==
    /\ probe.fn = "shouldAnimateLink" /\ probe.done
    /\ animationMode = "selected"
    /\ SelectedIds = {5, 12}
    /\ probe.link = Link(3, 9, 12)
    /\ probe.flag

\* The cubic Bezier polynomial with the control values p0, p1, p2, p3 at t.
Bernstein(t, p0, p1, p2, p3) ==
    LET u == FSub(Num(1), t)
    IN  FAdd(FAdd(FAdd(FMul(FMul(FMul(u, u), u), p0),
                       FMul(FMul(FMul(Num(3), FMul(u, u)), t), p1)),
                  FMul(FMul(FMul(Num(3), u), FMul(t, t)), p2)),
             FMul(FMul(FMul(t, t), t), p3))

\* C19: getSmartPoint with no rope points or fewer than 2 returns the cubic
\* Bezier point with the control points (a.x + cp, a.y) and (b.x - cp, b.y),
\* whatever the rope argument; a second evaluation with the same arguments
\* returns the same point, and neither evaluation changes any state.
C19_BezierSamplingPure ==
    [][(probe'.fn = "getSmartPoint" /\ Len(probe'.rope) < 2)
       => /\ UNCHANGED << phase, hostVars, hookVars, configVars, loopVars, staticTime,
                          storeVars, dirty, draws, lastDraw >>
          /\ probe'.point
               = << Bernstein(probe.t, probe.a[1], FAdd(probe.a[1], probe.cp),
                              FSub(probe.b[1], probe.cp), probe.b[1]),
                    Bernstein(probe.t, probe.a[2], probe.a[2], probe.b[2], probe.b[2]) >>
          /\ probe'.again => probe'.second = probe'.point]_vars

\* The curve from RopeA2 to RopeMid with cp = 25 was sampled twice at t = 1/4
\* with a rope of a single point, and the point is off the straight line.
C19_Witness ==
    /\ probe.fn = "getSmartPoint" /\ probe.again
    /\ Len(probe.rope) = 1
    /\ probe.t = Lit(1, 4) /\ probe.cp = Num(25)
    /\ probe.a = RopeA2 /\ probe.b = RopeMid
    /\ probe.second = probe.point
    /\ probe.point # bezierPointStraight(probe.t, probe.a, probe.b, probe.cp)

\* C20: one step applied to a rope just created between a and b on one
\* horizontal line, the endpoints not moved, leaves the middle point (point 4)
\* with a y strictly greater than before and the terminal points exactly on a
\* and b; so for a = (0,0), b = (100,0) they stay (0,0) and (100,0).
C20_StepLowersMidpoint ==
    (probe.fn = "updateRopePhysics" /\ probe.done)
    => /\ probe.second[5].y > probe.out[5].y
       /\ probe.second[1].x = probe.a[1] /\ probe.second[1].y = probe.a[2]
       /\ probe.second[9].x = probe.b[1] /\ probe.second[9].y = probe.b[2]
       /\ (probe.a = << 0, 0 >> /\ probe.b = << Num(100), 0 >>)
          => /\ probe.second[1].x = 0 /\ probe.second[1].y = 0
             /\ probe.second[9].x = Num(100) /\ probe.second[9].y = 0

\* The rope from (0,0) to (100,0), created with its middle point at y = 15, was
\* stepped once and its middle point is lower.
C20_Witness ==
    /\ probe.fn = "updateRopePhysics" /\ probe.done
    /\ probe.a = P0 /\ probe.b = P100
    /\ probe.out[5].y = Num(15)
    /\ probe.second[5].y > Num(15)

\* C16: two calls of the draw routine of the same effect with the same a, b,
\* now, length and rope points issue the same drawing commands, for every
\* effect of the table.
C16_EffectsDeterministic ==
    (probe.fn = "effect" /\ probe.again) => probe.second = probe.out

\* ------------------------------------------------------ a crowded rope store
NumSweepLinks == 61
MaxSweepDraws == 3
MaxSweepClock == 8001

\* The entry of a connector from P0 to P100 drawn once, at time 0: created and
\* stepped once.
DrawnOnce ==
    getRopePoints(EmptyStore, 0, TRUE, Link(1, 5, 9), P0, P100,
                  Hypot(FSub(P100[1], P0[1]), FSub(P100[2], P0[2])), 0).store[<< "link", 1 >>]

\* The store after the connectors 1 .. n were each drawn once at time 0 (no
\* sweep is due at time 0, so each request leaves the other entries alone).
Populated(n) == [k \in {<< "link", i >> : i \in 1..n} |-> DrawnOnce]

\* Gravity was enabled and a frame of NumSweepLinks connectors drawn at time 0.
InitSweep ==
    /\ Hooked("renderLink")
    /\ selectedNodes = {}
    /\ currentEffect = NoEffect
    /\ animationMode = "full"
    /\ gravityEnabled = TRUE
    /\ animationLoopId = 1
    /\ rafPending = {[id |-> 1, lastTime |-> 0, redrawAt |-> -1]}
    /\ staticTime = 5000
    /\ gifEnabled = FALSE
    /\ gifUrl = FALSE
    /\ ropePhysics = Populated(NumSweepLinks)
    /\ lastRopeCleanup = 0
    /\ clearedKeys = {}
    /\ dirty = "none"
    /\ draws = NumSweepLinks
    /\ lastDraw = NoDraw
    /\ probe = NoProbe

SweepRequests ==
    {RopeRequest(Link(1, 5, 9), P0, P100),
     RopeRequest(Link(2, 5, 9), P0, P100),
     RopeRequest(Link(NumSweepLinks + 1, 5, 9), P0, P100)}

NextSweep ==
    \/ \E d \in {3000, 5000, 5001} : Tick(d, MaxSweepClock)
    \/ \E req \in SweepRequests : Draw(req, NumSweepLinks + MaxSweepDraws)

SpecSweep == InitSweep /\ [][NextSweep]_vars

MaxDispatchDraws == 2
MaxDispatchTicks == 1

\* The first and the last effect of the table.
DispatchEffects == {0, NUM_EFFECTS - 1}

DispatchRequest(ctx, link, color, throws) ==
    Request(ctx, P0, P100, link, color, "opts", throws)

\* A connector of node 5, drawn normally, by an effect that throws, without a
\* surface, with a typed array for a, and with no b; and a connector between
\* nodes that are never selected.
DispatchRequests ==
    {DispatchRequest(TRUE, Link(1, 5, 9), "undefined", FALSE),
     DispatchRequest(TRUE, Link(1, 5, 9), "undefined", TRUE),
     DispatchRequest(FALSE, Link(1, 5, 9), "undefined", FALSE),
     WithEnds(DispatchRequest(TRUE, Link(1, 5, 9), "undefined", TRUE), "typed", "array"),
     WithEnds(DispatchRequest(TRUE, Link(1, 5, 9), "undefined", FALSE), "array", "null"),
     DispatchRequest(TRUE, Link(2, 3, 9), "red", FALSE)}

InitDispatch ==
    /\ hostKind \in {"renderLink", "drawLink"}
    /\ Hooked(hostKind)
    /\ selectedNodes = {}
    /\ rafPending = {}
    /\ InitSettings
    /\ animationMode = "full"
    /\ InitObservers

NextDispatch ==
    \/ \E i \in DispatchEffects \cup {NoEffect} : selectEffect(i)
    \/ \E m \in Modes : SetMode(m)
    \/ ToggleGravity
    \/ \E ids \in SUBSET {5} : SelectNodes(ids)
    \/ Tick(FrameMs, MaxDispatchTicks * FrameMs)
    \/ \E req \in DispatchRequests : Draw(req, MaxDispatchDraws)

SpecDispatch == InitDispatch /\ [][NextDispatch]_vars

\* ---------------------------------------------------- claims on the dispatch
\* The events of a trace that are calls of an effect's draw routine.
EffectCalls(trace) == SelectSeq(trace, LAMBDA e : e[1] = "effect")

\* The events of a trace that draw the rope.
RopeCalls(trace) == SelectSeq(trace, LAMBDA e : e[1] = "rope")

\* The events of a trace that call the host's original routine.
OriginalCalls(trace) == SelectSeq(trace, LAMBDA e : e[1] = "original")

\* The position of the first event of the given name in a trace, 0 if none.
FirstCall(trace, name) ==
    IF \E i \in 1..Len(trace) : trace[i][1] = name
    THEN CHOOSE i \in 1..Len(trace) :
            trace[i][1] = name /\ \A j \in 1..(i - 1) : trace[j][1] # name
    ELSE 0

\* The connector of a request passes the mode and selection rule, stated from
\* the mode and the host's selection.
Admits(link) ==
    \/ animationMode \in {"full", "static"}
    \/ /\ animationMode = "selected"
       /\ \/ ~link.present
          \/ link.origin_id \in SelectedIds
          \/ link.target_id \in SelectedIds

\* C11: a draw request runs the draw routine of the selected effect exactly
\* once if an effect is selected, the surface is present, both endpoints are
\* arrays and the connector is admitted, and runs no draw routine otherwise;
\* the routine is the one at the selected index and it is given the rope points
\* the store returned for the request (null when gravity is disabled).
C11_EffectInvokedOnce ==
    [][HookedDraw
       => LET req == lastDraw'.req
              calls == EffectCalls(lastDraw'.trace)
          IN  IF /\ currentEffect # NoEffect /\ req.ctx
                 /\ req.aKind = "array" /\ req.bKind = "array"
                 /\ Admits(req.link)
              THEN /\ Len(calls) = 1
                   /\ calls[1][2] = currentEffect
                   /\ calls[1][5] = lastDraw'.rope
                   /\ ~gravityEnabled => calls[1][5] = NoPoints
                   /\ gravityEnabled => calls[1][5] = ropePhysics'[lastDraw'.key].points
              ELSE calls = << >>]_vars

\* In mode selected with node 5 selected, the last effect of the table was run
\* on the rope of the connector of node 5 through the drawLink wrapper.
C11_Witness ==
    /\ lastDraw.hook = "patchedDrawLink"
    /\ animationMode = "selected" /\ SelectedIds = {5}
    /\ currentEffect = NUM_EFFECTS - 1
    /\ gravityEnabled
    /\ Len(EffectCalls(lastDraw.trace)) = 1
    /\ EffectCalls(lastDraw.trace)[1][5] # NoPoints

C14_EffectFailureContained ==
    [][HookedDraw
       => LET req == lastDraw'.req
              trace == lastDraw'.trace
          IN  /\ EffectThrew(trace)
                 => /\ lastDraw'.result = "undefined"
                    /\ FirstCall(trace, "warn") = FirstCall(trace, "effect") + 1
                    /\ gravityEnabled
                       => /\ Len(RopeCalls(trace)) = 1
                          /\ FirstCall(trace, "rope") > FirstCall(trace, "effect")
                          /\ RopeCalls(trace)[1][2] = ropePhysics'[lastDraw'.key].points
                    /\ ~gravityEnabled => ropePhysics' = ropePhysics
              /\ (lastDraw'.afterThrow /\ ~IndexThrows(req))
                 => /\ lastDraw'.result # "Error"
                    /\ Len(EffectCalls(trace))
                         = IF /\ currentEffect # NoEffect /\ req.ctx
                              /\ req.aKind = "array" /\ req.bKind = "array"
                              /\ Admits(req.link)
                           THEN 1 ELSE 0
                    /\ Len(RopeCalls(trace)) = IF gravityEnabled /\ req.ctx THEN 1 ELSE 0
                    /\ Len(OriginalCalls(trace))
                         = IF currentEffect = NoEffect /\ ~gravityEnabled THEN 1 ELSE 0]_vars

\* With gravity enabled the effect threw in two draw requests in a row, and
\* the second drew its rope.
C14_Witness ==
    /\ lastDraw.afterThrow
    /\ EffectThrew(lastDraw.trace)
    /\ gravityEnabled
    /\ Len(RopeCalls(lastDraw.trace)) = 1
    /\ lastDraw.result = "undefined"

\* C15: a draw request with a malformed endpoint (one that is not an array)
\* made while an effect is selected does not throw, runs no effect, and calls
\* the host's original routine once.
C15_MalformedFallsThrough ==
    [][(HookedDraw /\ currentEffect # NoEffect /\ ~BothArrays(lastDraw'.req))
       => /\ lastDraw'.result \notin {"TypeError", "Error"}
          /\ EffectCalls(lastDraw'.trace) = << >>
          /\ Len(OriginalCalls(lastDraw'.trace)) = 1]_vars

\* ------------------------------------------------- claims on the whole system
\* C13: no step changes staticTime, which is 5000; every effect run by a draw
\* request is given that value as its time in mode static, whatever the
\* connector and the clock, and the clock's reading in modes full and selected.
C13_StaticTimeConstant ==
    [][/\ staticTime = 5000
       /\ staticTime' = staticTime
       /\ HookedDraw
          => \A i \in 1..Len(EffectCalls(lastDraw'.trace)) :
                EffectCalls(lastDraw'.trace)[i][3]
                  = IF animationMode = "static" THEN 5000 ELSE clock]_vars

\* An effect was run in mode static when the clock had advanced.
C13_Witness ==
    /\ animationMode = "static"
    /\ clock > 0
    /\ Len(EffectCalls(lastDraw.trace)) = 1
    /\ EffectCalls(lastDraw.trace)[1][3] = 5000
\* C3: whenever gravity is disabled the rope store is empty, whatever the
\* configuration events and draw requests were.
C3_StoreEmptyWhileDisabled == ~gravityEnabled => ropePhysics = EmptyStore

\* Gravity was turned off while the store held a rope.
C3_Witness ==
    /\ ~gravityEnabled
    /\ clearedKeys # {}
    /\ ropePhysics = EmptyStore

C17_LoopSuspendedWhenIdle ==
    (/\ currentEffect = NoEffect \/ animationMode = "static"
     /\ ~gravityEnabled
     /\ ~gifEnabled)
    => (animationLoopId = NoLoop /\ rafPending = {})

\* ------------------------------------------------------------- installation
\* Start-up alone: init, the timers, the canvas appearing, and the panel's
\* effect and mode buttons.  The host creates its canvas at some time and every
\* timer that is set fires.
NextInstall ==
    \/ ExtensionInit
    \/ WaitTimerFires
    \/ HooksTimerFires
    \/ CanvasAppears
    \/ \E i \in Effects \cup {NoEffect} : timers.hooks < MaxTimers /\ selectEffect(i)
    \/ \E m \in Modes : SetMode(m)

SpecInstall ==
    /\ Init
    /\ [][NextInstall]_vars
    /\ WF_vars(CanvasAppears)
    /\ WF_vars(WaitTimerFires)
    /\ WF_vars(HooksTimerFires)

\* C18: once init ran, the hooks are eventually installed, though the canvas
\* or its class was missing when init or installHooks ran; and installed is
\* never true while the canvas class is unavailable.
C18_HooksEventuallyInstalled ==
    /\ (phase = "running") ~> installed
    /\ [](installed => ClassAvailable)

\* In a host without the LiteGraph global, where the class is reached through
\* the canvas alone and init found no canvas, the renderLink wrapper is in place
\* and no timer is left.
C18_Witness ==
    /\ installed
    /\ ~liteGraphGlobal
    /\ canvasReady
    /\ protoLink = "patchedRenderLink"
    /\ timers = [wait |-> 0, hooks |-> 0]

\* ------------------------------------------------------ more on the dispatch
\* C21: a draw request with a surface and array endpoints is rendered by at
\* least one path in every configuration: the selected effect is run, or the
\* rope is drawn, or the host's original routine is called.
C21_AlwaysRendered ==
    [][(HookedDraw /\ lastDraw'.req.ctx /\ BothArrays(lastDraw'.req))
       => \/ EffectCalls(lastDraw'.trace) # << >>
          \/ RopeCalls(lastDraw'.trace) # << >>
          \/ OriginalCalls(lastDraw'.trace) # << >>]_vars

\* ------------------------------------------------- more on the animation loop
\* C22: whenever gravity is enabled or an effect is selected in a mode other
\* than static, the animation loop is scheduled: animationLoopId is not null.
C22_LoopScheduledWhenActive ==
    (gravityEnabled \/ (currentEffect # NoEffect /\ animationMode # "static"))
    => animationLoopId # NoLoop

\* ------------------------------------------------------- more on the rope
\* The sag of a rope of the given length at point i of 0..8.
SagAt(len, i) ==
    FMul(FMul(FMul(Min(FMul(len, Lit(15, 100)), Num(60)), Num(4)), FDiv(Num(i), Num(8))),
         FSub(Num(1), FDiv(Num(i), Num(8))))

\* C23: the state created for a, b and len has exactly 9 points, the first and
\* the last alone pinned; point i is at x = a.x + (b.x - a.x) i/8 and
\* y = a.y + (b.y - a.y) i/8 + min(0.15 len, 60) 4 (i/8) (1 - i/8), so that the
\* sag is 0 at both ends and greatest, min(0.15 len, 60), at the middle; every
\* previous position is the position, and the segment length is len/8.
C23_CreatedRopeShape ==
    (probe.fn = "createRopeState" /\ probe.done)
    => LET pts == probe.out.points
           a == probe.a
           b == probe.b
           len == probe.cp
       IN  /\ Len(pts) = 9
           /\ \A k \in 1..9 :
                /\ pts[k].pinned <=> k \in {1, 9}
                /\ pts[k].x = FAdd(a[1], FMul(FSub(b[1], a[1]), FDiv(Num(k - 1), Num(8))))
                /\ pts[k].y = FAdd(FAdd(a[2], FMul(FSub(b[2], a[2]), FDiv(Num(k - 1), Num(8)))),
                                   SagAt(len, k - 1))
                /\ pts[k].oldX = pts[k].x /\ pts[k].oldY = pts[k].y
                /\ SagAt(len, k - 1) <= SagAt(len, 4)
           /\ SagAt(len, 0) = 0 /\ SagAt(len, 8) = 0
           /\ SagAt(len, 4) = Min(FMul(len, Lit(15, 100)), Num(60))
           /\ pts[1].x = a[1] /\ pts[1].y = a[2]
           /\ probe.out.segmentLen = FDiv(len, Num(8))
           /\ (a = P0 /\ b = P100) => pts[5].y = Num(15)

\* The rope for (0,0) and (100,0) was created with its middle point at (50, 15).
C23_Witness ==
    /\ probe.fn = "createRopeState" /\ probe.done
    /\ probe.a = P0 /\ probe.b = P100
    /\ probe.out.points[5].x = Num(50)
    /\ probe.out.points[5].y = Num(15)
    /\ probe.out.segmentLen = Lit(125, 10)

\* The share of an endpoint's displacement taken from the previous position of
\* the point at index distance d from it: (1 - d/4)^2 * 0.7.
Share(d) ==
    FMul(FMul(FSub(Num(1), FDiv(Num(d), Num(4))), FSub(Num(1), FDiv(Num(d), Num(4)))),
         Lit(7, 10))

\* An endpoint displaced by (dx, dy) moved more than 0.1.
MovedMoreThanTenth(dx, dy) == 10 * Hypot(dx, dy) > Num(1)

\* C24: momentum transfer changes previous positions alone; a start endpoint
\* that moved more than 0.1 from the stored lastA takes displacement times
\* (1 - d/4)^2 * 0.7 from the previous position of the points 1..3, an end
\* endpoint that moved more than 0.1 from lastB from that of the points 5..7;
\* the middle point and the terminal points are left alone, and so is every
\* point if neither endpoint moved more than 0.1; the step leaves lastA and
\* lastB equal to the a and b of the request.
C24_MomentumTransfer ==
    (probe.fn = "updateRopePhysics.momentum" /\ probe.done)
    => LET old == probe.out.points
           new == probe.second
           dxS == FSub(probe.a[1], probe.out.lastA[1])
           dyS == FSub(probe.a[2], probe.out.lastA[2])
           dxE == FSub(probe.b[1], probe.out.lastB[1])
           dyE == FSub(probe.b[2], probe.out.lastB[2])
           startMoved == MovedMoreThanTenth(dxS, dyS)
           endMoved == MovedMoreThanTenth(dxE, dyE)
       IN  /\ Len(new) = 9
           /\ \A i \in 0..8 :
                /\ new[i + 1].x = old[i + 1].x /\ new[i + 1].y = old[i + 1].y
                /\ new[i + 1].pinned = old[i + 1].pinned
                /\ IF startMoved /\ i \in 1..3
                   THEN /\ new[i + 1].oldX = FSub(old[i + 1].oldX, FMul(dxS, Share(i)))
                        /\ new[i + 1].oldY = FSub(old[i + 1].oldY, FMul(dyS, Share(i)))
                   ELSE IF endMoved /\ i \in 5..7
                   THEN /\ new[i + 1].oldX = FSub(old[i + 1].oldX, FMul(dxE, Share(8 - i)))
                        /\ new[i + 1].oldY = FSub(old[i + 1].oldY, FMul(dyE, Share(8 - i)))
                   ELSE new[i + 1].oldX = old[i + 1].oldX /\ new[i + 1].oldY = old[i + 1].oldY
           /\ (~startMoved /\ ~endMoved) => new = old
           /\ probe.state.lastA = probe.a /\ probe.state.lastB = probe.b

\* The start moved from (0,0) to (3,4) and the end by exactly 0.1: the previous
\* position of point 1 was changed, that of point 7 was not.
C24_Witness ==
    /\ probe.fn = "updateRopePhysics.momentum" /\ probe.done
    /\ probe.a = << Num(3), Num(4) >> /\ probe.b = << Num(100), Lit(1, 10) >>
    /\ probe.second[2].oldX # probe.out.points[2].oldX
    /\ probe.second[2].oldY # probe.out.points[2].oldY
    /\ probe.second[8] = probe.out.points[8]
    /\ probe.second[5] = probe.out.points[5]

\* ------------------------------------------------------- the keys of the store
MaxKeyDraws == 2

\* Endpoints about the rounding boundaries of a.x (5 and -5) and b.x (105), and
\* with a.y and b.y on the other side of one.
KeyEnds ==
    {<< P0, P100 >>,
     << << Lit(495, 100), 0 >>, P100 >>,
     << << Num(5), 0 >>, P100 >>,
     << << Num(-5), 0 >>, P100 >>,
     << << Lit(-505, 100), 0 >>, P100 >>,
     << P0, << Num(104), 0 >> >>,
     << P0, << Num(105), 0 >> >>,
     << << 0, Num(5) >>, P100 >>,
     << P0, << Num(100), Num(5) >> >>}

\* No link object, a link object without id, and the identities 0 and 1.
KeyLinks == {NoLink, Link(NoId, 5, 9), Link(0, 5, 9), Link(1, 5, 9)}

KeyRequests == {RopeRequest(link, e[1], e[2]) : link \in KeyLinks, e \in KeyEnds}

\* Gravity was enabled and nothing is drawn yet.
InitKeys ==
    /\ hostKind \in {"renderLink", "drawLink"}
    /\ Hooked(hostKind)
    /\ selectedNodes = {}
    /\ currentEffect = NoEffect
    /\ animationMode = "full"
    /\ gravityEnabled = TRUE
    /\ animationLoopId = 1
    /\ rafPending = {[id |-> 1, lastTime |-> 0, redrawAt |-> -1]}
    /\ staticTime = 5000
    /\ gifEnabled = FALSE
    /\ gifUrl = FALSE
    /\ ropePhysics = EmptyStore
    /\ lastRopeCleanup = 0
    /\ InitObservers

NextKeys == \E req \in KeyRequests : Draw(req, MaxKeyDraws)

SpecKeys == InitKeys /\ [][NextKeys]_vars

\* The connector of a request carries an identity.
HasIdentity(link) == link.present /\ link.id # NoId

\* The whole number r with 10 r the multiple of 10 nearest to v (the upper one
\* of two equally near).
Round10(v) ==
    CHOOSE r \in -50..50 : Num(10) * r - Num(5) <= v /\ v < Num(10) * r + Num(5)

\* C25: the key of a request is "link_" and the identity alone if the connector
\* carries one (0 is one), else "pos_" and the four coordinates each rounded to
\* its multiple of 10; keys are equal as strings only if they have the same
\* parts, so an identity key is never a positional key; and a request adds an
\* entry to the store exactly if its key is not there, never a second state
\* for a key.
C25_KeyRule ==
    [][HookedDraw
       => LET req == lastDraw'.req
              key == lastDraw'.key
          IN  /\ key = IF HasIdentity(req.link) THEN << "link", req.link.id >>
                       ELSE << "pos", Round10(req.a[1]), Round10(req.a[2]),
                               Round10(req.b[1]), Round10(req.b[2]) >>
              /\ \A k \in DOMAIN ropePhysics : KeyString(k) = KeyString(key) <=> k = key
              /\ \A k \in DOMAIN ropePhysics : k[1] # key[1] => KeyString(k) # KeyString(key)
              /\ DOMAIN ropePhysics' = DOMAIN ropePhysics \cup {key}
              /\ lastDraw'.path = "create" <=> key \notin DOMAIN ropePhysics
              /\ \A k \in DOMAIN ropePhysics \ {key} : ropePhysics'[k] = ropePhysics[k]]_vars

\* A connector without identity was drawn from (0,0) and then from (4.95,0):
\* the store holds one positional state, continued by the second request.
C25_Witness ==
    /\ draws = 2
    /\ lastDraw.req.link = Link(NoId, 5, 9)
    /\ lastDraw.req.a = << Lit(495, 100), 0 >>
    /\ lastDraw.path = "step"
    /\ DOMAIN ropePhysics = {<< "pos", 0, 0, 10, 0 >>}

\* ---------------------------------------------------- the animation loop runs
MaxLoopClock == 60

\* The time between two frames of the display, in ms.
LoopTickMs == 10

LoopProbe ==
    [Probe("loop", 0, P0, P0, 0, NoPoints, NoLink) EXCEPT !.now = -1, !.prev = -1]

\* The panel is used while the browser runs the frame callbacks.
InitLoop ==
    /\ Hooked("renderLink")
    /\ selectedNodes = {}
    /\ rafPending = {}
    /\ InitSettings
    /\ animationMode = "full"
    /\ clearedKeys = {}
    /\ dirty = "none"
    /\ draws = 0
    /\ lastDraw = NoDraw
    /\ probe = LoopProbe

NextLoop ==
    \/ Tick(LoopTickMs, MaxLoopClock)
    \/ \E f \in rafPending : LoopFrame(f)
    \/ ToggleGravity
    \/ \E m \in Modes : SetMode(m)
    \/ \E i \in Effects \cup {NoEffect} : selectEffect(i)
    \/ ToggleGif

SpecLoop == InitLoop /\ [][NextLoop]_vars

\* A step in which the loop asked the canvas to redraw.
LoopRedraw == dirty' = "setDirty"

\* An animation path is active.
PathActive ==
    (currentEffect # NoEffect /\ animationMode # "static") \/ gravityEnabled \/ gifEnabled

\* C26 as stated: any two consecutive redraw requests of the loop, whether or
\* not the loop was stopped and started in between, are at least 1000/45 ms
\* apart, and a redraw is requested only while an animation path is active.
\* (Two requests in one frame of the display are left aside: the browser runs
\* a callback in a later frame than the one that requested it.)
C26_RedrawsThrottledAlways ==
    [][LoopRedraw
       => /\ PathActive
          /\ (probe.now # -1 /\ clock > probe.now)
                => (clock - probe.now) * 45 >= 1000]_vars

\* C26: two consecutive redraw requests of one run of the loop (from a start
\* to the next stop) are at least 1000/45 ms apart, and a redraw is requested
\* only at a frame callback at which an animation path is active.
C26_RedrawsThrottledWithinRun ==
    [][LoopRedraw
       => /\ PathActive
          /\ \A f \in rafPending :
                /\ (clock - f.lastTime) * 45 >= 1000
                /\ f.redrawAt # -1 => (clock - f.redrawAt) * 45 >= 1000
                /\ f.redrawAt <= f.lastTime
          /\ \A g \in rafPending' : g.redrawAt = clock /\ g.lastTime = clock
          /\ probe'.now = clock]_vars

\* The loop asked for a redraw a second time, 30 ms after the first, having
\* been throttled at the frame callbacks in between.
C26_Witness ==
    /\ dirty = "setDirty"
    /\ probe.fn = "loop"
    /\ probe.prev # -1
    /\ probe.now = clock
    /\ probe.now - probe.prev = 30
    /\ \E f \in rafPending : f.redrawAt = clock

\* A step of the panel or the clock, not a frame callback.
NotAFrame == dirty' = "none"

\* C27: at most one frame callback of the loop is pending, and it is the one
\* animationLoopId names; with animationLoopId null none is pending, so after
\* stopAnimationLoop the callback does not run until a start; and a step that
\* is not a frame callback leaves a scheduled loop's pending callback as it
\* is unless it stops the loop (startAnimationLoop is a no-op then).
C27_OneLoopPending ==
    /\ [](/\ Cardinality(rafPending) <= 1
          /\ \A f \in rafPending : f.id = animationLoopId
          /\ animationLoopId = NoLoop <=> rafPending = {})
    /\ [][(NotAFrame /\ animationLoopId # NoLoop)
            => (rafPending' = rafPending \/ rafPending' = {})]_vars

\* Gravity, an effect and the overlay are all on (each handler called
\* startAnimationLoop), and the one pending callback is of a loop that has
\* passed the throttle before.
C27_Witness ==
    /\ gravityEnabled /\ gifEnabled
    /\ currentEffect # NoEffect /\ animationMode # "static"
    /\ animationLoopId # NoLoop
    /\ \E f \in rafPending : f.lastTime > 0 /\ clock > f.lastTime

\* ------------------------------------------------ several retries of the hooks
MaxHookTimers == 3

\* Effects are selected while init's and installHooks's retries are pending.
NextHooks ==
    \/ ExtensionInit
    \/ WaitTimerFires
    \/ HooksTimerFires
    \/ CanvasAppears
    \/ \E i \in Effects \cup {NoEffect} : timers.hooks < MaxHookTimers /\ selectEffect(i)
    \/ \E m \in Modes : SetMode(m)

SpecHooks == Init /\ [][NextHooks]_vars

\* C28: originalRenderLink is null or the host's own routine, never a wrapper;
\* a wrapper is on the prototype only once installed, with the host's routine
\* kept; and once installed is true no call changes the prototype's method,
\* originalRenderLink or installed.
C28_WrappedOnce ==
    /\ [](/\ originalRenderLink \in {"null", "host"}
          /\ protoLink # "host" => (installed /\ originalRenderLink = "host")
          /\ ~installed => (protoLink = "host" /\ originalRenderLink = "null"))
    /\ [][installed => /\ installed'
                       /\ protoLink' = protoLink
                       /\ originalRenderLink' = originalRenderLink]_vars

\* The wrapper was installed by one retry while two more retries of
\* installHooks were still pending.
C28_Witness ==
    /\ installed
    /\ protoLink = "patchedRenderLink"
    /\ originalRenderLink = "host"
    /\ timers.hooks >= 2

\* ------------------------------------------------- the store over a long time
MaxEvictDraws == 2
MaxEvictClock == 11001

\* The connectors of the sweep, and connector 1 drawn short and then long.
EvictRequests ==
    SweepRequests \cup {RopeRequest(Link(1, 5, 9), RopeA, RopeNear),
                        RopeRequest(Link(1, 5, 9), RopeA, RopeFar)}

\* Connectors are drawn and gravity is switched as the time passes.
NextEvict ==
    \/ \E d \in {3000, 5001} : Tick(d, MaxEvictClock)
    \/ \E req \in EvictRequests : Draw(req, NumSweepLinks + MaxEvictDraws)
    \/ ToggleGravity

SpecEvict == InitSweep /\ [][NextEvict]_vars

\* The store's size when line 191 tests it: the requested key is in it.
SizeAtGate == Cardinality(DOMAIN ropePhysics \cup {lastDraw'.key})

\* C29: a key leaves the store only in the clear on disabling gravity, or in a
\* sweep, which a request runs only with more than 60 entries and more than
\* 3000 ms after the last one, and which removes only entries last seen more
\* than 8000 ms ago, never the requested one; and the state of a key that
\* stays is replaced or changed only by a request for that key.
C29_OnlyStaleSwept ==
    [][/\ \A k \in DOMAIN ropePhysics \ DOMAIN ropePhysics' :
             \/ gravityEnabled /\ ~gravityEnabled' /\ ropePhysics' = EmptyStore
             \/ /\ HookedDraw /\ gravityEnabled
                /\ k # lastDraw'.key
                /\ clock - ropePhysics[k].lastSeen > 8000
                /\ SizeAtGate > 60
                /\ clock - lastRopeCleanup > 3000
                /\ lastRopeCleanup' = clock
       /\ lastRopeCleanup' # lastRopeCleanup
             => (HookedDraw /\ gravityEnabled /\ SizeAtGate > 60
                 /\ clock - lastRopeCleanup > 3000)
       /\ \A k \in DOMAIN ropePhysics \cap DOMAIN ropePhysics' :
             ropePhysics'[k] # ropePhysics[k] => (HookedDraw /\ k = lastDraw'.key)
       /\ (HookedDraw /\ gravityEnabled) => lastDraw'.key \in DOMAIN ropePhysics']_vars

\* Connector 2 was drawn at 3000 and connector 1 at 8001: the sweep of that
\* request removed the 59 entries last seen at 0 and kept the two.
C29_Witness ==
    /\ clock = 8001
    /\ lastRopeCleanup = 8001
    /\ lastDraw.key = << "link", 1 >>
    /\ DOMAIN ropePhysics = {<< "link", 1 >>, << "link", 2 >>}
    /\ ropePhysics[<< "link", 2 >>].lastSeen = 3000

\* The last step was a request served with gravity on.
AfterRequest == lastDraw.path \in {"create", "step", "resize"}

\* C30: after a request processed at time now that leaves more than 60
\* entries, the last sweep is at most 3000 ms old and every entry was last
\* seen at most 11000 ms ago; so an entry older than that is in a store of 60
\* or fewer entries.
C30_SweepKeepsUp ==
    (AfterRequest /\ Cardinality(DOMAIN ropePhysics) > 60)
    => /\ clock - lastRopeCleanup <= 3000
       /\ \A k \in DOMAIN ropePhysics : clock - ropePhysics[k].lastSeen <= 11000

\* A sweep at 6000 removed nothing; the request at 9000 came too soon for one,
\* and leaves 61 entries, among them entries last seen 9000 ms ago.
C30_Witness ==
    /\ AfterRequest
    /\ clock = 9000
    /\ lastRopeCleanup = 6000
    /\ Cardinality(DOMAIN ropePhysics) > 60
    /\ \E k \in DOMAIN ropePhysics : ropePhysics[k].lastSeen = 0

====
